---- MODULE Spec2Model ----
(***************************************************************************)
(* Model of whatsapp_webhook.py: the /twilio-webhook handler, the          *)
(* background task process_incoming and the four helpers it sequences      *)
(* (download_media, sarvam_transcribe, gemini_fact_check,                  *)
(* send_whatsapp_reply).                                                   *)
(*                                                                         *)
(* Python strings are sequences of one-character strings; the Python value *)
(* None is the one-element sequence None below, which no string of the     *)
(* model can equal because no alphabet contains the element "None".        *)
(***************************************************************************)
EXTENDS Integers, Sequences, FiniteSets, TLC

VARIABLES
    form,             \* the form of the inbound POST
    hpc,              \* position of the twilio_webhook handler
    response,         \* what the handler returned to the provider
    background_tasks, \* tasks added with background_tasks.add_task
    pc,               \* position of the process_incoming run
    args,             \* parameters of the process_incoming run
    local_path,       \* local variable of process_incoming
    transcript,       \* local variable of process_incoming
    fact_result,      \* local variable of process_incoming
    resp,             \* local variable of sarvam_transcribe (the ASR response)
    exc,              \* TRUE while an exception is propagating out of the handler
    raised,           \* the steps of the run that raised
    files,            \* temporary files present on disk
    downloads,        \* URLs download_media was called with
    transcribes,      \* paths sarvam_transcribe was called with
    gemini_calls,     \* transcripts gemini_fact_check was called with
    prompts,          \* prompts passed to model.generate_content
    attempts,         \* messages passed to twilio_client.messages.create
    sent              \* messages for which messages.create returned

vars == <<form, hpc, response, background_tasks, pc, args, local_path,
          transcript, fact_result, resp, exc, raised, files, downloads,
          transcribes, gemini_calls, prompts, attempts, sent>>

----------------------------------------------------------------------------
(* Bounds of the model *)

MaxBody == 2    \* longest Body
MaxNum == 2     \* longest NumMedia string
MaxField == 2   \* longest value of a field of the ASR response

----------------------------------------------------------------------------
(* Python values *)

None == <<"None">>

WS == {" "}

StrOver(A, n) == UNION {[1..k -> A] : k \in 0..n}

\* bool(x) for x a string or None
Truthy(x) == x # None /\ x # <<>>

\* a or b
PyOr(a, b) == IF Truthy(a) THEN a ELSE b

RECURSIVE LStrip(_)
LStrip(s) == IF s = <<>> THEN s
             ELSE IF Head(s) \in WS THEN LStrip(Tail(s)) ELSE s

RECURSIVE RStrip(_)
RStrip(s) == IF s = <<>> THEN s
             ELSE IF s[Len(s)] \in WS THEN RStrip(SubSeq(s, 1, Len(s) - 1)) ELSE s

\* str.strip()
Strip(s) == RStrip(LStrip(s))

Digits == {"0", "1", "2", "3", "4", "5", "6", "7", "8", "9"}

DigitVal(c) ==
    CASE c = "0" -> 0 [] c = "1" -> 1 [] c = "2" -> 2 [] c = "3" -> 3
      [] c = "4" -> 4 [] c = "5" -> 5 [] c = "6" -> 6 [] c = "7" -> 7
      [] c = "8" -> 8 [] c = "9" -> 9

RECURSIVE Decimal(_)
Decimal(s) == IF s = <<>> THEN 0
              ELSE 10 * Decimal(SubSeq(s, 1, Len(s) - 1)) + DigitVal(s[Len(s)])

AllDigits(s) == s # <<>> /\ \A i \in 1..Len(s) : s[i] \in Digits

\* int(s) for a string s: surrounding whitespace is dropped, one sign is
\* allowed, the rest must be decimal digits; anything else is a ValueError.
ParseInt(s) ==
    LET t == Strip(s)
        signed == t # <<>> /\ Head(t) \in {"-", "+"}
        d == IF signed THEN Tail(t) ELSE t
    IN  IF AllDigits(d)
        THEN [ok |-> TRUE,
              val |-> IF signed /\ Head(t) = "-" THEN 0 - Decimal(d) ELSE Decimal(d)]
        ELSE [ok |-> FALSE, val |-> 0]

----------------------------------------------------------------------------
(* Inputs *)

Senders == {"whatsapp:+91A", "whatsapp:+91B"}

TWILIO_WHATSAPP_FROM == "whatsapp:+14155238886"

BodyChars == {" ", "x"}
NumChars == {"0", "1", "-", "a", " "}
FieldChars == {" ", "t"}

Bodies == StrOver(BodyChars, MaxBody)
NumStrings == StrOver(NumChars, MaxNum)
Urls == {<<>>, <<"https://api.twilio.com/media/0">>}

\* The form Twilio posts: From is always there, the other fields may be absent.
Forms == [From : Senders,
          Body : Bodies \cup {None},
          NumMedia : NumStrings \cup {None},
          MediaUrl0 : Urls \cup {None}]

\* form.get(key, default)
FormGet(f, key, default) == IF f[key] = None THEN default ELSE f[key]

\* no request has arrived
NoForm == [From |-> "", Body |-> None, NumMedia |-> None, MediaUrl0 |-> None]

NoArgs == [from_number |-> "", body |-> None, num_media |-> None, media_url |-> None]

\* The response of sarvam.speech_to_text.transcribe: two attributes that may
\* be missing or None, and possibly a model_dump() giving a dict.
FieldVals == StrOver(FieldChars, MaxField) \cup {None}

EmptyDict == [transcript |-> None, text |-> None]

ASRResponses ==
    [transcript : FieldVals, text : FieldVals, has_model_dump : {TRUE},
     dump : [transcript : FieldVals, text : FieldVals]]
    \cup
    [transcript : FieldVals, text : FieldVals, has_model_dump : {FALSE},
     dump : {EmptyDict}]

NoResp == [transcript |-> None, text |-> None, has_model_dump |-> FALSE,
           dump |-> EmptyDict]

\* The response of model.generate_content: its text, when it has one.
GeminiResponses ==
    {[has_text |-> TRUE, text |-> <<"Verdict: FALSE", "Explanation: ...">>],
     [has_text |-> TRUE, text |-> <<>>],
     [has_text |-> FALSE, text |-> None]}

\* str(resp)
StrOfResp(r) == <<"<GenerateContentResponse>">>

\* The keywords of download_media found in the Content-Type header.
CtKeywords == {"opus", "ogg", "wav", "mpeg", "mp3"}
ContentTypes == SUBSET CtKeywords

DownloadOutcomes == {"http_error", "open_error", "write_error", "ok"}

----------------------------------------------------------------------------
(* The fixed texts *)

EmptyNotice == <<"<no usable content, send a clear voice note>">>
Apology == <<"<processing error, please try again>">>

PromptHead == <<"<You are an expert fact-checker ... Fact to verify:>", "\"">>
PromptTail == <<"\"", "<Tasks: ... Format: Verdict / Explanation>">>

----------------------------------------------------------------------------
(* Helpers of the pipeline *)

\* download_media: the extension chosen from the Content-Type
ExtOf(ct) ==
    IF "opus" \in ct \/ "ogg" \in ct THEN ".opus"
    ELSE IF "wav" \in ct THEN ".wav"
    ELSE IF "mpeg" \in ct \/ "mp3" \in ct THEN ".mp3"
    ELSE ".bin"

\* download_media: the path of the temporary file
TempPath(ext) == <<"<tempdir>/", "<uuid4>", ext>>

\* ExtractTranscript with the "text" fallbacks forgotten
ExtractTranscriptOnly(r) ==
    LET first == r.transcript
        d == IF r.has_model_dump THEN r.dump ELSE EmptyDict
        t == IF ~Truthy(first) THEN PyOr(d.transcript, <<>>) ELSE first
    IN  Strip(t)

\* sarvam_transcribe: the transcript taken out of the response
ExtractTranscript(r) ==
    LET first == PyOr(r.transcript, r.text)
        d == IF r.has_model_dump THEN r.dump ELSE EmptyDict
        t == IF ~Truthy(first)
             THEN PyOr(PyOr(d.transcript, d.text), <<>>)
             ELSE first
    IN  Strip(t)

\* what sarvam_transcribe can return: the transcript of some response
ASRTranscripts == {ExtractTranscript(r) : r \in ASRResponses}

\* gemini_fact_check: the prompt built around the transcript
BuildPrompt(t) == PromptHead \o t \o PromptTail

\* gemini_fact_check: getattr(resp, "text", str(resp))
FactText(r) == IF r.has_text THEN r.text ELSE StrOfResp(r)

\* FormatReply with the transcript left out
FormatReplyFactOnly(t, fact) == <<"Transcript:\n">> \o <<"\n\nFact-check:\n">> \o fact

\* process_incoming: the body of the result reply
FormatReply(t, fact) == <<"Transcript:\n">> \o t \o <<"\n\nFact-check:\n">> \o fact

\* InputBranch with ">= 0" written for "> 0"
InputBranchFromZero(num_media, media_url) ==
    IF ~Truthy(num_media) THEN "text"
    ELSE IF ~ParseInt(num_media).ok THEN "raise"
    ELSE IF ParseInt(num_media).val >= 0 /\ Truthy(media_url) THEN "media"
    ELSE "text"

\* InputBranch with the ValueError of int() swallowed
InputBranchLenient(num_media, media_url) ==
    IF Truthy(num_media) /\ ParseInt(num_media).ok
       /\ ParseInt(num_media).val > 0 /\ Truthy(media_url)
    THEN "media" ELSE "text"

\* process_incoming: the condition of line 106, "raise" when int() raises
InputBranch(num_media, media_url) ==
    IF ~Truthy(num_media) THEN "text"
    ELSE IF ~ParseInt(num_media).ok THEN "raise"
    ELSE IF ParseInt(num_media).val > 0 /\ Truthy(media_url) THEN "media"
    ELSE "text"

\* IsEmptyTranscript written as "if transcript is None"
IsNoneTranscript(t) == t = None

\* process_incoming: "if not transcript"
IsEmptyTranscript(t) == ~Truthy(t)

\* send_whatsapp_reply: messages.create either returns or raises
Message(to, text) == [from_ |-> TWILIO_WHATSAPP_FROM, to |-> to, body |-> text]

send_whatsapp_reply(to, text, ok) ==
    /\ attempts' = Append(attempts, Message(to, text))
    /\ sent' = IF ok THEN Append(sent, Message(to, text)) ELSE sent

\* TaskMayStart for a task started as soon as it is added
TaskMayStartOnAdd == background_tasks # <<>>

\* Starlette runs the tasks of BackgroundTasks once the response is sent.
TaskMayStart == response = "accepted" /\ background_tasks # <<>>

----------------------------------------------------------------------------
(* Initial state: the server is up and no request has arrived *)

Init ==
    /\ form = NoForm
    /\ hpc = "idle"
    /\ response = "none"
    /\ background_tasks = <<>>
    /\ pc = "none"
    /\ args = NoArgs
    /\ local_path = None
    /\ transcript = None
    /\ fact_result = None
    /\ resp = NoResp
    /\ exc = FALSE
    /\ raised = {}
    /\ files = {}
    /\ downloads = <<>>
    /\ transcribes = <<>>
    /\ gemini_calls = <<>>
    /\ prompts = <<>>
    /\ attempts = <<>>
    /\ sent = <<>>

handlerVars == <<form, hpc, response, background_tasks>>
runVars == <<pc, args, local_path, transcript, fact_result, exc, raised>>
worldVars == <<files, downloads, transcribes, gemini_calls, prompts, attempts, sent>>

----------------------------------------------------------------------------
(* The webhook *)

\* Twilio posts a form to /twilio-webhook
Post ==
    /\ hpc = "idle"
    /\ \E f \in Forms : form' = f
    /\ hpc' = "add_task"
    /\ UNCHANGED <<response, background_tasks, resp>>
    /\ UNCHANGED runVars
    /\ UNCHANGED worldVars

\* twilio_webhook, lines 143-149: read the fields and add the task
TwilioWebhookAddTask ==
    /\ hpc = "add_task"
    /\ background_tasks' = Append(background_tasks,
           [from_number |-> form.From,
            body |-> FormGet(form, "Body", <<>>),
            num_media |-> FormGet(form, "NumMedia", <<"0">>),
            media_url |-> form.MediaUrl0])
    /\ hpc' = "return"
    /\ UNCHANGED <<form, response, resp>>
    /\ UNCHANGED runVars
    /\ UNCHANGED worldVars

\* twilio_webhook, line 150: the acknowledgement
TwilioWebhookReturn ==
    /\ hpc = "return"
    /\ response' = "accepted"
    /\ hpc' = "done"
    /\ UNCHANGED <<form, background_tasks, resp>>
    /\ UNCHANGED runVars
    /\ UNCHANGED worldVars

\* the task runner calls process_incoming(from_number, body, num_media, media_url)
RunBackgroundTask ==
    /\ pc = "none"
    /\ TaskMayStart
    /\ args' = Head(background_tasks)
    /\ background_tasks' = Tail(background_tasks)
    /\ local_path' = None
    /\ pc' = "resolve"
    /\ UNCHANGED <<form, hpc, response, resp, transcript, fact_result, exc, raised>>
    /\ UNCHANGED worldVars

----------------------------------------------------------------------------
(* process_incoming *)

\* line 106: the branch on num_media and media_url; line 110 on the text side
ResolveInput ==
    /\ pc = "resolve"
    /\ LET b == InputBranch(args.num_media, args.media_url)
       IN  /\ pc' = CASE b = "media" -> "download"
                      [] b = "text" -> "guard"
                      [] b = "raise" -> "except"
           /\ transcript' = IF b = "text"
                            THEN Strip(PyOr(args.body, <<>>))
                            ELSE transcript
           /\ raised' = IF b = "raise" THEN raised \cup {"int"} ELSE raised
    /\ UNCHANGED handlerVars
    /\ UNCHANGED <<args, local_path, fact_result, exc, resp>>
    /\ UNCHANGED worldVars

\* line 107: download_media(media_url). The GET or raise_for_status may
\* raise, open() may raise before the file exists, write() may raise after.
DownloadMedia ==
    /\ pc = "download"
    /\ downloads' = Append(downloads, args.media_url)
    /\ \E outcome \in DownloadOutcomes, ct \in ContentTypes :
         LET path == TempPath(ExtOf(ct))
         IN  /\ files' = IF outcome \in {"write_error", "ok"}
                         THEN files \cup {path} ELSE files
             /\ local_path' = IF outcome = "ok" THEN path ELSE local_path
             /\ pc' = IF outcome = "ok" THEN "transcribe" ELSE "except"
             /\ raised' = IF outcome = "ok" THEN raised
                          ELSE raised \cup {"download_media"}
    /\ UNCHANGED handlerVars
    /\ UNCHANGED <<args, transcript, fact_result, exc, resp>>
    /\ UNCHANGED <<transcribes, gemini_calls, prompts, attempts, sent>>

\* line 108: sarvam_transcribe(local_path); the service call may raise,
\* otherwise t is what lines 60-64 take out of the response
SarvamTranscribe ==
    /\ pc = "transcribe"
    /\ transcribes' = Append(transcribes, local_path)
    /\ \E ok \in BOOLEAN, t \in ASRTranscripts :
         /\ transcript' = IF ok THEN t ELSE transcript
         /\ pc' = IF ok THEN "guard" ELSE "except"
         /\ raised' = IF ok THEN raised ELSE raised \cup {"sarvam_transcribe"}
    /\ UNCHANGED handlerVars
    /\ UNCHANGED <<args, local_path, fact_result, exc, resp>>
    /\ UNCHANGED <<files, downloads, gemini_calls, prompts, attempts, sent>>

\* lines 112-115: the empty transcript is answered with the fixed notice
SendEmptyNotice ==
    /\ pc = "guard"
    /\ IsEmptyTranscript(transcript)
    /\ \E ok \in BOOLEAN :
         /\ send_whatsapp_reply(args.from_number, EmptyNotice, ok)
         /\ pc' = IF ok THEN "finally" ELSE "except"
         /\ raised' = IF ok THEN raised ELSE raised \cup {"send_whatsapp_reply"}
    /\ UNCHANGED handlerVars
    /\ UNCHANGED <<args, local_path, transcript, fact_result, exc, resp>>
    /\ UNCHANGED <<files, downloads, transcribes, gemini_calls, prompts>>

\* line 117: gemini_fact_check(transcript); generate_content may raise
GeminiFactCheck ==
    /\ pc = "guard"
    /\ ~IsEmptyTranscript(transcript)
    /\ gemini_calls' = Append(gemini_calls, transcript)
    /\ prompts' = Append(prompts, BuildPrompt(transcript))
    /\ \E ok \in BOOLEAN, r \in GeminiResponses :
         /\ fact_result' = IF ok THEN FactText(r) ELSE fact_result
         /\ pc' = IF ok THEN "send_result" ELSE "except"
         /\ raised' = IF ok THEN raised ELSE raised \cup {"gemini_fact_check"}
    /\ UNCHANGED handlerVars
    /\ UNCHANGED <<args, local_path, transcript, exc, resp>>
    /\ UNCHANGED <<files, downloads, transcribes, attempts, sent>>

\* line 118: the reply with the transcript and the result
SendResult ==
    /\ pc = "send_result"
    /\ \E ok \in BOOLEAN :
         /\ send_whatsapp_reply(args.from_number,
                                FormatReply(transcript, fact_result), ok)
         /\ pc' = IF ok THEN "finally" ELSE "except"
         /\ raised' = IF ok THEN raised ELSE raised \cup {"send_whatsapp_reply"}
    /\ UNCHANGED handlerVars
    /\ UNCHANGED <<args, local_path, transcript, fact_result, exc, resp>>
    /\ UNCHANGED <<files, downloads, transcribes, gemini_calls, prompts>>

\* lines 120-123: the handler sends the apology; a raise of this send is
\* caught by nothing and leaves through the finally block
ExceptHandler ==
    /\ pc = "except"
    /\ \E ok \in BOOLEAN :
         /\ send_whatsapp_reply(args.from_number, Apology, ok)
         /\ exc' = ~ok
         /\ raised' = IF ok THEN raised ELSE raised \cup {"apology"}
    /\ pc' = "finally"
    /\ UNCHANGED handlerVars
    /\ UNCHANGED <<args, local_path, transcript, fact_result, resp>>
    /\ UNCHANGED <<files, downloads, transcribes, gemini_calls, prompts>>

\* lines 125-130: remove the file local_path names, if it is there; a raise
\* of os.remove is swallowed. Then the run returns, or the pending
\* exception goes on to the task runner.
Finally ==
    /\ pc = "finally"
    /\ \E removed \in BOOLEAN :
         files' = IF local_path # None /\ local_path \in files /\ removed
                  THEN files \ {local_path} ELSE files
    /\ pc' = IF exc THEN "propagated" ELSE "returned"
    /\ UNCHANGED handlerVars
    /\ UNCHANGED <<args, local_path, transcript, fact_result, exc, raised, resp>>
    /\ UNCHANGED <<downloads, transcribes, gemini_calls, prompts, attempts, sent>>

----------------------------------------------------------------------------

Next ==
    \/ Post
    \/ TwilioWebhookAddTask
    \/ TwilioWebhookReturn
    \/ RunBackgroundTask
    \/ ResolveInput
    \/ DownloadMedia
    \/ SarvamTranscribe
    \/ SendEmptyNotice
    \/ GeminiFactCheck
    \/ SendResult
    \/ ExceptHandler
    \/ Finally

Spec == Init /\ [][Next]_vars

----------------------------------------------------------------------------
(* sarvam_transcribe alone, on every response of the bounded set *)

InitExtract ==
    /\ resp \in ASRResponses
    /\ pc = "extract"
    /\ form = NoForm
    /\ hpc = "idle"
    /\ response = "none"
    /\ background_tasks = <<>>
    /\ args = NoArgs
    /\ local_path = None
    /\ transcript = None
    /\ fact_result = None
    /\ exc = FALSE
    /\ raised = {}
    /\ files = {}
    /\ downloads = <<>>
    /\ transcribes = <<>>
    /\ gemini_calls = <<>>
    /\ prompts = <<>>
    /\ attempts = <<>>
    /\ sent = <<>>

\* lines 60-64 of sarvam_transcribe, applied to the response held in resp
SarvamExtract ==
    /\ pc = "extract"
    /\ transcript' = ExtractTranscript(resp)
    /\ pc' = "extracted"
    /\ UNCHANGED handlerVars
    /\ UNCHANGED <<args, local_path, fact_result, exc, raised, resp>>
    /\ UNCHANGED worldVars

NextExtract == SarvamExtract

SpecExtract == InitExtract /\ [][NextExtract]_vars

----------------------------------------------------------------------------
(* Vocabulary of the properties *)

\* the run of process_incoming is over
Finished == pc \in {"returned", "propagated"}

\* line 106 has been evaluated
PastResolve == pc \notin {"none", "resolve"}

\* the steps process_incoming runs inside its try block
TrySteps == {"int", "download_media", "sarvam_transcribe", "gemini_fact_check",
             "send_whatsapp_reply"}

\* sub occurs in s as a contiguous piece
Contains(s, sub) ==
    \E i \in 1..(Len(s) - Len(sub) + 1) : SubSeq(s, i, i + Len(sub) - 1) = sub

NoticeMsg == Message(form.From, EmptyNotice)
ApologyMsg == Message(form.From, Apology)

\* NumMedia of the inbound message is a string that int() reads as n
NumMediaIs(n) ==
    /\ form.NumMedia # None
    /\ ParseInt(form.NumMedia).ok
    /\ ParseInt(form.NumMedia).val = n

\* the inbound message declares at least one attachment and carries a URL
DeclaresMedia ==
    /\ form.NumMedia # None
    /\ ParseInt(form.NumMedia).ok
    /\ ParseInt(form.NumMedia).val > 0
    /\ form.MediaUrl0 # None
    /\ form.MediaUrl0 # <<>>

\* NumMedia is a non-empty string that int() rejects
NumMediaUnreadable ==
    /\ form.NumMedia # None
    /\ form.NumMedia # <<>>
    /\ ~ParseInt(form.NumMedia).ok

\* the Body of the inbound message, trimmed ("" when the field is absent)
TrimmedBody == IF form.Body = None THEN <<>> ELSE Strip(form.Body)

----------------------------------------------------------------------------
(* C1: whenever a step of the try block raised, the run ends with exactly   *)
(* one reply sent to the sender, the generic apology.  The code breaks     *)
(* this when the send of the apology raises too.                           *)
C1_OneApologyOnFailure ==
    (Finished /\ raised \cap TrySteps # {}) => sent = <<ApologyMsg>>

(* C2: every finished run has delivered at least one reply, each of them    *)
(* the result, the empty-content notice or the apology.  The code breaks   *)
(* this when the send of the apology raises.                               *)
C2_NeverZeroReplies ==
    Finished =>
        /\ Len(sent) >= 1
        /\ \A i \in 1..Len(sent) :
             /\ sent[i].to = form.From
             /\ \/ sent[i].body \in {EmptyNotice, Apology}
                \/ sent[i].body = FormatReply(transcript, fact_result)

(* C3: for a message that declares media and carries a URL, download_media  *)
(* is called exactly once and no temporary file is left when the run is    *)
(* over.  The code leaves the file when write() raises inside              *)
(* download_media, because local_path was never assigned.                  *)
C3_NoTempFileLeft ==
    (Finished /\ DeclaresMedia) => (Len(downloads) = 1 /\ files = {})

(* C4 as stated: with an empty transcript gemini_fact_check is never called *)
(* and the one reply sent is the empty-content notice.                     *)
C4_Original ==
    (Finished /\ transcript = <<>>) =>
        (gemini_calls = <<>> /\ sent = <<NoticeMsg>>)

(* C4 amended: with an empty transcript gemini_fact_check is never called   *)
(* and the first reply attempted is the empty-content notice; it is the    *)
(* only reply when its send returns, and when its send raises the only     *)
(* other reply attempted is the apology.                                   *)
C4_EmptyTranscriptNotice ==
    (Finished /\ transcript = <<>>) =>
        /\ gemini_calls = <<>>
        /\ prompts = <<>>
        /\ Len(attempts) >= 1
        /\ attempts[1] = NoticeMsg
        /\ IF "send_whatsapp_reply" \notin raised
           THEN attempts = <<NoticeMsg>> /\ sent = <<NoticeMsg>>
           ELSE /\ attempts = <<NoticeMsg, ApologyMsg>>
                /\ sent = IF "apology" \in raised THEN <<>> ELSE <<ApologyMsg>>

C4_Witness ==
    /\ Finished
    /\ transcript = <<>>
    /\ transcribes # <<>>
    /\ sent = <<NoticeMsg>>

(* C5: for a message with NumMedia = 0 and a non-empty Body the transcript  *)
(* is the trimmed body and neither download_media nor sarvam_transcribe    *)
(* is ever called, whether or not a MediaUrl0 came with it.                *)
C5_TextMessage ==
    (NumMediaIs(0) /\ form.Body # None /\ form.Body # <<>>) =>
        /\ downloads = <<>>
        /\ transcribes = <<>>
        /\ files = {}
        /\ pc \notin {"download", "transcribe"}
        /\ PastResolve => transcript = Strip(form.Body)

C5_Witness ==
    /\ Finished
    /\ NumMediaIs(0)
    /\ form.Body = <<" ", "x">>
    /\ Truthy(form.MediaUrl0)
    /\ transcript = <<"x">>
    /\ gemini_calls = <<(<<"x">>)>>

(* C6: the handler only adds the task and returns the acknowledgement; no   *)
(* step of process_incoming (no download, transcription, fact-check or     *)
(* send) happens before the acknowledgement is returned.                   *)
C6_AckBeforeProcessing ==
    /\ response = "none" =>
         /\ pc = "none"
         /\ downloads = <<>> /\ transcribes = <<>> /\ gemini_calls = <<>>
         /\ prompts = <<>> /\ attempts = <<>> /\ sent = <<>> /\ files = {}
    /\ hpc = "done" => response = "accepted"
    /\ response \in {"none", "accepted"}

C6_Witness ==
    /\ response = "accepted"
    /\ Finished
    /\ downloads # <<>>
    /\ sent # <<>>

----------------------------------------------------------------------------
(* C7: sarvam_transcribe tries the "transcript" attribute, the "text"       *)
(* attribute, then the "transcript" and "text" keys of the dump, stops at  *)
(* the first non-empty one and returns it trimmed, or "" when there is     *)
(* none; a response with only a "text" field gives that field trimmed.     *)

Strategies(r) ==
    <<r.transcript, r.text,
      IF r.has_model_dump THEN r.dump.transcript ELSE None,
      IF r.has_model_dump THEN r.dump.text ELSE None>>

RECURSIVE FirstNonEmpty(_)
FirstNonEmpty(q) ==
    IF q = <<>> THEN <<>>
    ELSE IF Head(q) # None /\ Head(q) # <<>> THEN Head(q)
    ELSE FirstNonEmpty(Tail(q))

C7_ExtractionOrder ==
    pc = "extracted" =>
        /\ transcript = Strip(FirstNonEmpty(Strategies(resp)))
        /\ (resp.transcript = None /\ resp.text # None /\ ~resp.has_model_dump)
             => transcript = Strip(resp.text)

C7_Witness ==
    /\ pc = "extracted"
    /\ resp.transcript = None
    /\ resp.text = <<" ", "t">>
    /\ ~resp.has_model_dump
    /\ transcript = <<"t">>

----------------------------------------------------------------------------
(* C8: when the transcript is non-empty and nothing raises,                 *)
(* gemini_fact_check is called exactly once, with that transcript, and     *)
(* exactly one reply goes to the sender, whose body holds the transcript   *)
(* and the fact-check result as they are.                                  *)
C8_ResultReply ==
    (pc = "returned" /\ raised = {} /\ Truthy(transcript)) =>
        /\ gemini_calls = <<transcript>>
        /\ Len(prompts) = 1
        /\ Contains(prompts[1], transcript)
        /\ \E r \in GeminiResponses :
             fact_result = IF r.has_text THEN r.text ELSE StrOfResp(r)
        /\ Len(sent) = 1
        /\ attempts = sent
        /\ sent[1].to = form.From
        /\ Contains(sent[1].body, transcript)
        /\ Contains(sent[1].body, fact_result)
        /\ Len(sent[1].body) = Len(transcript) + Len(fact_result) + 2

C8_Witness ==
    /\ pc = "returned"
    /\ raised = {}
    /\ transcript = <<"x", "x">>
    /\ fact_result = <<"Verdict: FALSE", "Explanation: ...">>
    /\ Len(sent) = 1

(* C9 as stated: a message that declares media and carries a URL is         *)
(* downloaded; for every other message the transcript is the trimmed body. *)
C9_Original ==
    PastResolve =>
        IF DeclaresMedia
        THEN pc = "download" \/ downloads = <<form.MediaUrl0>>
        ELSE downloads = <<>> /\ transcript = TrimmedBody

(* C9 amended: a message that declares media and carries a URL is           *)
(* downloaded and, when the download returns, transcribed, and its         *)
(* transcript never comes from the body; a non-empty NumMedia that int()   *)
(* rejects raises before any branch is taken, so no transcript is resolved *)
(* and the run goes to the failure handler; for every other message        *)
(* (NumMedia absent, empty, zero, negative, or no URL) the transcript is   *)
(* the trimmed body and nothing is downloaded.                             *)
C9_InputResolution ==
    PastResolve =>
        IF NumMediaUnreadable
        THEN /\ "int" \in raised
             /\ transcript = None
             /\ downloads = <<>> /\ transcribes = <<>> /\ gemini_calls = <<>>
             /\ pc = "except" \/ (Len(attempts) = 1 /\ attempts[1] = ApologyMsg)
        ELSE IF DeclaresMedia
        THEN /\ "int" \notin raised
             /\ pc = "download" \/ downloads = <<form.MediaUrl0>>
             /\ pc = "download" => downloads = <<>>
             /\ (pc \notin {"download", "transcribe"} /\ "download_media" \notin raised)
                  => transcribes = <<local_path>>
             /\ "download_media" \in raised => transcribes = <<>>
             /\ transcript # None
                  => (transcribes # <<>> /\ transcript \in ASRTranscripts)
        ELSE /\ "int" \notin raised
             /\ downloads = <<>> /\ transcribes = <<>>
             /\ transcript = TrimmedBody

C9_Witness ==
    /\ Finished
    /\ form.NumMedia = <<"-", "1">>
    /\ Truthy(form.MediaUrl0)
    /\ form.Body = <<"x", " ">>
    /\ transcript = <<"x">>

(* C10: no exception ever leaves process_incoming; every run returns        *)
(* normally after the cleanup.  The code breaks this when the send of the  *)
(* apology raises inside the except block.                                 *)
C10_NothingPropagates ==
    /\ pc # "propagated"
    /\ pc = "returned" => ~exc

====
